---- MODULE Spec2Model ----
(***************************************************************************)
(* A model of src/src/publish.py: the three main-table builders, the key   *)
(* partitioner, the mirror converter and the publish orchestrators.        *)
(*                                                                         *)
(* A CSV cell is a sequence of character codes (ASCII), the empty sequence *)
(* being the null cell; a table is a header (column names) and a sequence  *)
(* of rows.  The table-algebra primitives of lib/ (cross product, join,    *)
(* sort, drop-empty-columns, the relational import/merge/export, the       *)
(* thread pool) are not part of publish.py: they are modelled from their   *)
(* contracts.                                                              *)
(***************************************************************************)
EXTENDS Integers, Sequences, FiniteSets, TLC

(***************************************************************************)
(* Bounds of the model.                                                    *)
(***************************************************************************)
\* Number of dates in the range [2020-01-01, tomorrow].
NumDates == 2
\* Largest number of rows of the dated topic table.
MaxDatedRows == 2

(***************************************************************************)
(* Characters and strings.                                                 *)
(***************************************************************************)
Comma == 44

RECURSIVE StrLeq(_, _)
\* Lexical comparison of two strings, as Python compares str values.
StrLeq(a, b) ==
  IF Len(a) = 0 THEN TRUE
  ELSE IF Len(b) = 0 THEN FALSE
  ELSE IF a[1] < b[1] THEN TRUE
  ELSE IF a[1] > b[1] THEN FALSE
  ELSE StrLeq(Tail(a), Tail(b))

RECURSIVE RowString(_)
\* The line of a CSV file holding the row: its cells separated by commas.
RowString(row) ==
  IF Len(row) = 0 THEN <<>>
  ELSE IF Len(row) = 1 THEN row[1]
  ELSE row[1] \o <<Comma>> \o RowString(Tail(row))

\* Location keys: "A" and "AB" (one a prefix of the other).
KeyA == <<65>>
KeyAB == <<65, 66>>
AllKeys == {KeyA, KeyAB}

\* date_range("2020-01-01", max_date): ISO dates, of one fixed width.
DateStr(d) == <<48 + d>>
date_list == [d \in 1..NumDates |-> DateStr(d)]

Null == <<>>

(***************************************************************************)
(* Tables.                                                                 *)
(***************************************************************************)
Table(header, rows) == [header |-> header, rows |-> rows]

Range(s) == {s[i] : i \in DOMAIN s}

\* get_table_columns
get_table_columns(t) == t.header

\* Position of the first column of that name.
ColIndex(header, name) ==
  CHOOSE i \in 1..Len(header) :
    header[i] = name /\ \A j \in 1..(i - 1) : header[j] # name

\* table_read_column
table_read_column(t, name) ==
  [i \in 1..Len(t.rows) |-> t.rows[i][ColIndex(t.header, name)]]

\* The positions of a sequence that satisfy a test, in order.
RECURSIVE PositionsFrom(_, _, _)
PositionsFrom(i, n, keep) ==
  IF i > n THEN <<>>
  ELSE (IF i \in keep THEN <<i>> ELSE <<>>) \o PositionsFrom(i + 1, n, keep)

Project(row, positions) == [k \in 1..Len(positions) |-> row[positions[k]]]

RECURSIVE CrossRows(_, _)
CrossRows(left, right) ==
  IF Len(left) = 0 THEN <<>>
  ELSE [j \in 1..Len(right) |-> left[1] \o right[j]] \o CrossRows(Tail(left), right)

\* table_cross_product: every row of the left table with every row of the right.
table_cross_product(left, right) ==
  Table(left.header \o right.header, CrossRows(left.rows, right.rows))

\* table_join(left, right, on, how="outer"): every row of the left table, once,
\* extended with the other columns of the right table's row of the same key
\* (the last such row), or with nulls when the right table has none.
table_join(left, right, on) ==
  LET rpos == PositionsFrom(1, Len(right.header),
                {i \in 1..Len(right.header) : right.header[i] \notin on})
      KeyOf(t, row) == [c \in on |-> row[ColIndex(t.header, c)]]
      Matches(row) == {j \in 1..Len(right.rows) :
                         KeyOf(right, right.rows[j]) = KeyOf(left, row)}
      Last(S) == CHOOSE j \in S : \A k \in S : k <= j
      RightData(row) ==
        IF Matches(row) = {} THEN [k \in 1..Len(rpos) |-> Null]
        ELSE Project(right.rows[Last(Matches(row))], rpos)
  IN Table(left.header \o Project(right.header, rpos),
           [i \in 1..Len(left.rows) |-> left.rows[i] \o RightData(left.rows[i])])

RECURSIVE TupleLeq(_, _)
\* Comparison of two tuples of strings of one length, component by component.
TupleLeq(a, b) ==
  IF Len(a) = 0 THEN TRUE
  ELSE IF a[1] = b[1] THEN TupleLeq(Tail(a), Tail(b))
  ELSE StrLeq(a[1], b[1])

RECURSIVE SortBy(_, _)
\* A stable sort of rows by their sort keys (sortKeys[i] is the key of rows[i]).
SortBy(rows, sortKeys) ==
  IF Len(rows) = 0 THEN <<>>
  ELSE LET m == CHOOSE i \in 1..Len(rows) :
                  /\ \A j \in 1..Len(rows) : TupleLeq(sortKeys[i], sortKeys[j])
                  /\ \A j \in 1..(i - 1) : ~TupleLeq(sortKeys[j], sortKeys[i])
           Drop(s) == [k \in 1..(Len(s) - 1) |-> IF k < m THEN s[k] ELSE s[k + 1]]
       IN <<rows[m]>> \o SortBy(Drop(rows), Drop(sortKeys))

\* table_sort(table, output): the data rows in lexical order of the whole line.
table_sort(t) ==
  Table(t.header, SortBy(t.rows, [i \in 1..Len(t.rows) |-> <<RowString(t.rows[i])>>]))

\* table_drop_nan_columns: without the columns that are null in every row.
table_drop_nan_columns(t) ==
  LET keep == PositionsFrom(1, Len(t.header),
                {i \in 1..Len(t.header) :
                   \E r \in 1..Len(t.rows) : t.rows[r][i] # Null})
  IN Table(Project(t.header, keep),
           [r \in 1..Len(t.rows) |-> Project(t.rows[r], keep)])

(***************************************************************************)
(* The relational store of lib/sql.                                        *)
(***************************************************************************)
RECURSIVE LeftOuterRows(_, _, _, _, _)
\* The rows of `left LEFT OUTER JOIN right ON (on)`: a left row once per right row
\* of the same key, or once with nulls when there is none.
LeftOuterRows(lrows, lheader, right, on, rpos) ==
  IF Len(lrows) = 0 THEN <<>>
  ELSE LET row == lrows[1]
           same == PositionsFrom(1, Len(right.rows),
                     {j \in 1..Len(right.rows) :
                        \A c \in on : right.rows[j][ColIndex(right.header, c)]
                                        = row[ColIndex(lheader, c)]})
           out == IF Len(same) = 0
                  THEN << row \o [k \in 1..Len(rpos) |-> Null] >>
                  ELSE [k \in 1..Len(same) |-> row \o Project(right.rows[same[k]], rpos)]
       IN out \o LeftOuterRows(Tail(lrows), lheader, right, on, rpos)

LeftOuterJoin(left, right, on) ==
  LET rpos == PositionsFrom(1, Len(right.header),
                {i \in 1..Len(right.header) : right.header[i] \notin on})
  IN Table(left.header \o Project(right.header, rpos),
           LeftOuterRows(left.rows, left.header, right, on, rpos))

RECURSIVE MergeFrom(_, _, _, _)
MergeFrom(acc, relations, names, on) ==
  IF Len(names) = 0 THEN acc
  ELSE MergeFrom(LeftOuterJoin(acc, relations[names[1]], on), relations, Tail(names), on)

\* table_merge(conn, names, on, how="LEFT OUTER"): the first relation, left-joined
\* with each of the others in turn.
table_merge(relations, names, on) ==
  MergeFrom(relations[names[1]], relations, Tail(names), on)

\* table_as_csv(conn, name, output, sort_by): the relation, ORDER BY the columns.
table_as_csv(t, sort_by) ==
  Table(t.header,
        SortBy(t.rows, [i \in 1..Len(t.rows) |->
                          [k \in 1..Len(sort_by) |->
                             t.rows[i][ColIndex(t.header, sort_by[k])]]]))

(***************************************************************************)
(* The input folder of a builder.                                          *)
(***************************************************************************)
\* Tables withheld from the main table of the direct strategy (lib.constants).
EXCLUDE_FROM_MAIN_TABLE == {"main", "index", "worldbank", "worldpop", "by-age", "by-sex"}

Strategies == <<"direct", "v3", "sqlite">>

\* The name of the key column: "key" in the tables make_main_table reads,
\* "location_key" in those of make_main_table_v3 and make_main_table_sqlite.
KeyColumn(s) == IF s = "direct" THEN "key" ELSE "location_key"

NameOf(k) == IF k = KeyA THEN <<97>> ELSE <<98>>
PopulationOf(k) == IF k = KeyA THEN <<55>> ELSE <<56>>
\* A dated record may hold no value.
ConfirmedOf(k, d) == IF d = 1 THEN Null ELSE <<53>>

IndexTable(keys) ==
  Table(<<"location_key", "name">>, [i \in 1..Len(keys) |-> <<keys[i], NameOf(keys[i])>>])

\* The elements of a set, in some order (the order of the records in a file).
RECURSIVE SetToSeq(_)
SetToSeq(S) ==
  IF S = {} THEN <<>>
  ELSE LET e == CHOOSE e \in S : TRUE IN <<e>> \o SetToSeq(S \ {e})

StaticTable(keys) ==
  LET ks == SetToSeq(keys)
  IN Table(<<"location_key", "population">>,
           [i \in 1..Len(ks) |-> <<ks[i], PopulationOf(ks[i])>>])

DatedTable(records) ==
  LET rs == SetToSeq(records)
  IN Table(<<"date", "location_key", "new_confirmed">>,
           [i \in 1..Len(rs) |-> <<DateStr(rs[i][2]), rs[i][1],
                                   ConfirmedOf(rs[i][1], rs[i][2])>>])

\* A main.csv left in the folder by an earlier run.
StaleMain ==
  Table(<<"location_key", "date", "stale">>, << <<KeyA, DateStr(1), <<57>>>> >>)

IndexOptions == {<<>>, <<KeyA>>, <<KeyA, KeyAB>>, <<KeyAB, KeyA>>}
StaticOptions == SUBSET AllKeys
\* Dated records may lie outside the date range (the day after tomorrow).
DatedOptions ==
  {R \in SUBSET (AllKeys \X (1..(NumDates + 1))) : Cardinality(R) <= MaxDatedRows}

\* The orders in which glob("*.csv") may list the folder.
GlobOrders == { <<"demographics", "epidemiology", "index", "main">>,
                <<"main", "index", "epidemiology", "demographics">> }

(***************************************************************************)
(* State of the builders.                                                  *)
(***************************************************************************)
VARIABLES
  tables,              \* tables_folder: table name -> table, for the files present
  glob_order,          \* the order in which glob("*.csv") lists them
  drop_empty_columns,  \* the flag of make_main_table_v3 / make_main_table_sqlite
  strategy,            \* the builder that is running
  pc,                  \* its position
  tempdirs,            \* the temporary directories that exist
  files,               \* the files of the temporary directories
  temp_input,
  temp_output,
  todo,                \* what is left of the loop over glob("*.csv")
  non_dated_columns,
  idx1,
  idx2,
  conn,                \* the relations of the staging database
  joined,              \* per builder, the tables it has joined so far
  output,              \* per builder, the table written to output_path
  result               \* per builder: "pending", "ok" or "failed"

builderVars == <<tables, glob_order, drop_empty_columns, strategy, pc, tempdirs, files,
                 temp_input, temp_output, todo, non_dated_columns, idx1, idx2, conn,
                 joined, output, result>>

(***************************************************************************)
(* State of the key partitioner, _subset_grouped_key.                      *)
(***************************************************************************)
VARIABLES
  main_table,     \* the lines of the file at main_table_path, the header first
  p_pc,           \* the position of the generator
  idx,            \* the number of lines the sweep has taken
  current_key,
  key_folder,
  file_handle,    \* the key whose main.csv file_handle refers to
  open_handles,   \* the files that are open
  out_files,      \* output_folder: key -> the lines of <key>/main.csv
  yielded,        \* the paths the generator has yielded
  progress        \* progress_bar: <<updates, total>>

partitionerVars == <<main_table, p_pc, idx, current_key, key_folder, file_handle,
                     open_handles, out_files, yielded, progress>>

(***************************************************************************)
(* State of a publish run: main_v3, main_v2, or a caller that consumes      *)
(* create_table_subsets or convert_tables_to_json, and of the batch of      *)
(* tasks (thread_map) the run is waiting for.                               *)
(***************************************************************************)
VARIABLES
  run,            \* which function is running
  r_pc,           \* its position
  input_tables,   \* the names of the tables of tables_folder
  tree,           \* the output folder: path -> "complete" or "partial"
  renamed,        \* publish_global_tables: the tables renamed into its workdir
  published,      \* the tables written to the output folder
  broken_out,     \* the tables publish_location_breakouts has split
  r_todo,         \* what is left of the loop the run is in
  location_keys,
  generators,     \* the generators that were created and never iterated
  fan_stage,      \* the batch: "latest", "aggregate", "mirror" or "none"
  items,          \* the inputs of its tasks, in order
  task,           \* the state of each task
  consumed,       \* the number of results the caller has taken
  batch,          \* "none", "running", "returned" or "raised"
  log,            \* the paths logger.log_error was called with
  f_yielded       \* the paths the generator has yielded

publishVars == <<run, r_pc, input_tables, tree, renamed, published, broken_out, r_todo,
                 location_keys, generators, fan_stage, items, task, consumed, batch, log,
                 f_yielded>>

(***************************************************************************)
(* State of one task of the latest-subset stage: subset_latest on one of    *)
(* the CSV files of the output folder.                                      *)
(***************************************************************************)
VARIABLES
  csv_kind,       \* what csv_file is: "copy" of a topic table, or the "main" table
  csv_rows,       \* its data rows, <<key, date>>, in the order of the file
  t_pc,           \* the position of the pass
  t_pos,          \* the number of rows the pass has read
  t_output        \* the rows written to latest/<name>.csv

latestVars == <<csv_kind, csv_rows, t_pc, t_pos, t_output>>

vars == <<builderVars, partitionerVars, publishVars, latestVars>>

\* The variables of the other components.
otherThanBuilder == <<partitionerVars, publishVars, latestVars>>

NoFiles == [n \in {} |-> Null]
Put(fs, name, t) == [n \in (DOMAIN fs) \cup {name} |-> IF n = name THEN t ELSE fs[n]]
Remove(fs, names) == [n \in (DOMAIN fs) \ names |-> fs[n]]

\* A table of the folder as the running builder reads it: the direct strategy
\* reads the generation of the tables whose key column is called "key".
ReadTable(name) ==
  LET t == tables[name]
  IN IF strategy = "direct"
     THEN Table([i \in 1..Len(t.header) |->
                   IF t.header[i] = "location_key" THEN "key" ELSE t.header[i]], t.rows)
     ELSE t

\* The range ending today.
max_date_today == NumDates - 1

\* max_date: tomorrow, the last date of the range.
max_date == NumDates
date_range == [d \in 1..max_date |-> DateStr(d)]

DatesTable == Table(<<"date">>, [d \in 1..Len(date_range) |-> <<date_range[d]>>])

KeysTable(column) ==
  LET keys == table_read_column(ReadTable("index"), column)
  IN Table(<<column>>, [i \in 1..Len(keys) |-> <<keys[i]>>])

\* Every table joined on the key alone.
JoinOnKeyOnly(table_columns, key) == {key}

\* The columns a topic table is joined on.
JoinOn(table_columns, key) ==
  IF "date" \in Range(table_columns) THEN {key, "date"} ELSE {key}

\* A file of the folder: absent, or present with that content.
Choices(contents, none) ==
  {[present |-> FALSE, content |-> none]} \cup {[present |-> TRUE, content |-> c] : c \in contents}

InitBuilder ==
  /\ \E index \in Choices(IndexOptions, <<>>),
        static \in Choices(StaticOptions, {}),
        dated \in Choices(DatedOptions, {}),
        stale \in BOOLEAN :
       LET present == (IF index.present THEN {"index"} ELSE {})
                      \cup (IF static.present THEN {"demographics"} ELSE {})
                      \cup (IF dated.present THEN {"epidemiology"} ELSE {})
                      \cup (IF stale THEN {"main"} ELSE {})
       IN /\ tables = [n \in present |->
                         CASE n = "index" -> IndexTable(index.content)
                           [] n = "demographics" -> StaticTable(static.content)
                           [] n = "epidemiology" -> DatedTable(dated.content)
                           [] OTHER -> StaleMain]
          /\ \E order \in GlobOrders :
               glob_order = SelectSeq(order, LAMBDA n : n \in present)
  /\ drop_empty_columns \in BOOLEAN
  /\ strategy = "none"
  /\ pc = "idle"
  /\ tempdirs = {}
  /\ files = NoFiles
  /\ temp_input = "tmp.1.csv"
  /\ temp_output = "tmp.2.csv"
  /\ todo = <<>>
  /\ non_dated_columns = {}
  /\ idx1 = <<>>
  /\ idx2 = <<>>
  /\ conn = NoFiles
  /\ joined = [s \in Range(Strategies) |-> <<>>]
  /\ output = NoFiles
  /\ result = [s \in Range(Strategies) |-> "pending"]

(***************************************************************************)
(* The caller of the builders: each of the three is run once over the same *)
(* folder, one after the other.                                            *)
(***************************************************************************)
Pending == {i \in 1..Len(Strategies) : result[Strategies[i]] = "pending"}

FirstStep(s) == IF s = "direct" THEN "d_keys" ELSE "h_assert"

\* A builder raised over a folder that has its index table: an I/O error of
\* one of its steps, at which the caller stops.
Aborted == \E s \in Range(Strategies) : result[s] = "failed" /\ "index" \in DOMAIN tables

StartBuilder ==
  /\ UNCHANGED otherThanBuilder
  /\ pc \in {"idle", "done", "failed"}
  /\ Pending # {}
  /\ ~Aborted
  /\ LET s == Strategies[CHOOSE i \in Pending : \A j \in Pending : i <= j]
     IN /\ strategy' = s
        /\ pc' = FirstStep(s)
  /\ tempdirs' = {"workdir"}
  /\ files' = NoFiles
  /\ temp_input' = "tmp.1.csv"
  /\ temp_output' = "tmp.2.csv"
  /\ todo' = <<>>
  /\ non_dated_columns' = {}
  /\ idx1' = <<>>
  /\ idx2' = <<>>
  /\ conn' = NoFiles
  /\ UNCHANGED <<tables, glob_order, drop_empty_columns, joined, output, result>>

\* An exception that leaves the temporary directories behind.
RaiseLeaving ==
  /\ pc' = "failed"
  /\ tempdirs' = tempdirs
  /\ files' = files
  /\ result' = [result EXCEPT ![strategy] = "failed"]

\* An exception leaves every `with TemporaryDirectory()` block: the directories
\* and their files are removed, and the builder has failed.
Raise ==
  /\ pc' = "failed"
  /\ tempdirs' = {}
  /\ files' = NoFiles
  /\ result' = [result EXCEPT ![strategy] = "failed"]

\* A builder that always drops the empty columns of what it writes.
ReturnDropped(t) ==
  /\ pc' = "done"
  /\ tempdirs' = {}
  /\ files' = NoFiles
  /\ output' = Put(output, strategy, table_drop_nan_columns(t))
  /\ result' = [result EXCEPT ![strategy] = "ok"]

\* Normal exit of the builder, with the table written to output_path.
Return(t) ==
  /\ pc' = "done"
  /\ tempdirs' = {}
  /\ files' = NoFiles
  /\ output' = Put(output, strategy, t)
  /\ result' = [result EXCEPT ![strategy] = "ok"]

(***************************************************************************)
(* make_main_table: the direct streaming join.                             *)
(***************************************************************************)
\* keys_table = read_file(tables_folder / "index.csv", usecols=["key"])
D_Keys ==
  /\ UNCHANGED otherThanBuilder
  /\ pc = "d_keys"
  /\ IF "index" \in DOMAIN tables
     THEN /\ files' = Put(files, "keys.csv", KeysTable("key"))
          /\ pc' = "d_dates"
          /\ UNCHANGED <<tempdirs, result>>
     ELSE Raise
  /\ UNCHANGED <<tables, glob_order, drop_empty_columns, strategy, temp_input,
                 temp_output, todo, non_dated_columns, idx1, idx2, conn, joined, output>>

D_Dates ==
  /\ UNCHANGED otherThanBuilder
  /\ pc = "d_dates"
  /\ files' = Put(files, "dates.csv", DatesTable)
  /\ pc' = "d_cross"
  /\ UNCHANGED <<tables, glob_order, drop_empty_columns, strategy, tempdirs, temp_input,
                 temp_output, todo, non_dated_columns, idx1, idx2, conn, joined, output,
                 result>>

D_Cross ==
  /\ UNCHANGED otherThanBuilder
  /\ pc = "d_cross"
  /\ files' = Put(files, "main.tmp.csv",
                  table_cross_product(files["keys.csv"], files["dates.csv"]))
  /\ pc' = "d_seed"
  /\ UNCHANGED <<tables, glob_order, drop_empty_columns, strategy, tempdirs, temp_input,
                 temp_output, todo, non_dated_columns, idx1, idx2, conn, joined, output,
                 result>>

\* Add all the index columns to seed the main table.
D_Seed ==
  /\ UNCHANGED otherThanBuilder
  /\ pc = "d_seed"
  /\ LET main == table_join(files["main.tmp.csv"], ReadTable("index"), {"key"})
     IN /\ files' = Put(files, "main.csv", main)
        /\ non_dated_columns' = Range(get_table_columns(main))
  /\ joined' = [joined EXCEPT ![strategy] = Append(@, "index")]
  /\ todo' = glob_order
  /\ pc' = "d_loop"
  /\ UNCHANGED <<tables, glob_order, drop_empty_columns, strategy, tempdirs, temp_input,
                 temp_output, idx1, idx2, conn, output, result>>

D_Skip ==
  /\ UNCHANGED otherThanBuilder
  /\ pc = "d_loop"
  /\ todo # <<>>
  /\ Head(todo) \in EXCLUDE_FROM_MAIN_TABLE
  /\ todo' = Tail(todo)
  /\ UNCHANGED <<tables, glob_order, drop_empty_columns, strategy, pc, tempdirs, files,
                 temp_input, temp_output, non_dated_columns, idx1, idx2, conn, joined,
                 output, result>>

\* table_join(main_table_path, table_file_path, join_on, temp_file_path) and
\* shutil.move(temp_file_path, main_table_path).
D_Join ==
  /\ UNCHANGED otherThanBuilder
  /\ pc = "d_loop"
  /\ todo # <<>>
  /\ Head(todo) \notin EXCLUDE_FROM_MAIN_TABLE
  /\ LET table == ReadTable(Head(todo))
         table_columns == get_table_columns(table)
         join_on == JoinOn(table_columns, "key")
         temp == table_join(files["main.csv"], table, join_on)
     IN /\ files' = Remove(Put(files, "main.csv", temp), {"main.tmp.csv"})
        /\ non_dated_columns' =
             IF "date" \in Range(table_columns) THEN non_dated_columns
             ELSE non_dated_columns \cup Range(table_columns)
  /\ joined' = [joined EXCEPT ![strategy] = Append(@, Head(todo))]
  /\ todo' = Tail(todo)
  /\ UNCHANGED <<tables, glob_order, drop_empty_columns, strategy, pc, tempdirs,
                 temp_input, temp_output, idx1, idx2, conn, output, result>>

\* table_sort(main_table_path, output_path)
D_Sort ==
  /\ UNCHANGED otherThanBuilder
  /\ pc = "d_loop"
  /\ todo = <<>>
  /\ Return(table_sort(files["main.csv"]))
  /\ UNCHANGED <<tables, glob_order, drop_empty_columns, strategy, temp_input,
                 temp_output, todo, non_dated_columns, idx1, idx2, conn, joined>>

(***************************************************************************)
(* _make_location_key_and_date_table, called by make_main_table_v3 and by  *)
(* make_main_table_sqlite with the path the cross product is written to.   *)
(***************************************************************************)
HelperOutput == IF strategy = "v3" THEN temp_output ELSE "cross-product.csv"

\* assert index_table.exists(), "Index table not found"
H_Assert ==
  /\ UNCHANGED otherThanBuilder
  /\ pc = "h_assert"
  /\ IF "index" \in DOMAIN tables
     THEN /\ tempdirs' = tempdirs \cup {"helper"}
          /\ pc' = "h_keys"
          /\ UNCHANGED <<files, result>>
     ELSE Raise
  /\ UNCHANGED <<tables, glob_order, drop_empty_columns, strategy, temp_input,
                 temp_output, todo, non_dated_columns, idx1, idx2, conn, joined, output>>

H_Keys ==
  /\ UNCHANGED otherThanBuilder
  /\ pc = "h_keys"
  /\ files' = Put(files, "helper/location_keys.csv", KeysTable("location_key"))
  /\ pc' = "h_dates"
  /\ UNCHANGED <<tables, glob_order, drop_empty_columns, strategy, tempdirs, temp_input,
                 temp_output, todo, non_dated_columns, idx1, idx2, conn, joined, output,
                 result>>

H_Dates ==
  /\ UNCHANGED otherThanBuilder
  /\ pc = "h_dates"
  /\ files' = Put(files, "helper/dates.csv", DatesTable)
  /\ pc' = "h_cross"
  /\ UNCHANGED <<tables, glob_order, drop_empty_columns, strategy, tempdirs, temp_input,
                 temp_output, todo, non_dated_columns, idx1, idx2, conn, joined, output,
                 result>>

\* table_cross_product(keys_table_path, date_table_path, output_path), and the
\* helper's own temporary directory is removed on return.
H_Cross ==
  /\ UNCHANGED otherThanBuilder
  /\ pc = "h_cross"
  /\ files' = Remove(Put(files, HelperOutput,
                         table_cross_product(files["helper/location_keys.csv"],
                                             files["helper/dates.csv"])),
                     {"helper/location_keys.csv", "helper/dates.csv"})
  /\ tempdirs' = tempdirs \ {"helper"}
  /\ pc' = IF strategy = "v3" THEN "v_swap" ELSE "s_import"
  /\ UNCHANGED <<tables, glob_order, drop_empty_columns, strategy, temp_input,
                 temp_output, todo, non_dated_columns, idx1, idx2, conn, joined, output,
                 result>>

(***************************************************************************)
(* make_main_table_v3: the double-buffered streaming join.                 *)
(***************************************************************************)
\* Tables make_main_table_v3 leaves out.
V3Excluded == {"main"}

\* The loop entered without the swap of the two paths.
V_NoSwap ==
  /\ UNCHANGED otherThanBuilder
  /\ pc = "v_swap"
  /\ temp_input' = temp_input
  /\ temp_output' = temp_output
  /\ todo' = glob_order
  /\ pc' = "v_loop"
  /\ UNCHANGED <<tables, glob_order, drop_empty_columns, strategy, tempdirs, files,
                 non_dated_columns, idx1, idx2, conn, joined, output, result>>

\* temp_input, temp_output = temp_output, temp_input, before the loop.
V_Swap ==
  /\ UNCHANGED otherThanBuilder
  /\ pc = "v_swap"
  /\ temp_input' = temp_output
  /\ temp_output' = temp_input
  /\ todo' = glob_order
  /\ pc' = "v_loop"
  /\ UNCHANGED <<tables, glob_order, drop_empty_columns, strategy, tempdirs, files,
                 non_dated_columns, idx1, idx2, conn, joined, output, result>>

V_Skip ==
  /\ UNCHANGED otherThanBuilder
  /\ pc = "v_loop"
  /\ todo # <<>>
  /\ Head(todo) \in V3Excluded
  /\ todo' = Tail(todo)
  /\ UNCHANGED <<tables, glob_order, drop_empty_columns, strategy, pc, tempdirs, files,
                 temp_input, temp_output, non_dated_columns, idx1, idx2, conn, joined,
                 output, result>>

\* table_join(temp_input, table_file_path, join_on, temp_output), then the flip.
V_Join ==
  /\ UNCHANGED otherThanBuilder
  /\ pc = "v_loop"
  /\ todo # <<>>
  /\ Head(todo) \notin V3Excluded
  /\ LET table == ReadTable(Head(todo))
         join_on == JoinOn(get_table_columns(table), "location_key")
     IN files' = Put(files, temp_output, table_join(files[temp_input], table, join_on))
  /\ temp_input' = temp_output
  /\ temp_output' = temp_input
  /\ joined' = [joined EXCEPT ![strategy] = Append(@, Head(todo))]
  /\ todo' = Tail(todo)
  /\ UNCHANGED <<tables, glob_order, drop_empty_columns, strategy, pc, tempdirs,
                 non_dated_columns, idx1, idx2, conn, output, result>>

\* A drop pass that copies the table as it is.
V_DropNothing ==
  /\ UNCHANGED otherThanBuilder
  /\ pc = "v_loop"
  /\ todo = <<>>
  /\ drop_empty_columns
  /\ files' = Put(files, temp_output, files[temp_input])
  /\ temp_input' = temp_output
  /\ temp_output' = temp_input
  /\ pc' = "v_sort"
  /\ UNCHANGED <<tables, glob_order, drop_empty_columns, strategy, tempdirs, todo,
                 non_dated_columns, idx1, idx2, conn, joined, output, result>>

\* if drop_empty_columns: table_drop_nan_columns(temp_input, temp_output), flip.
V_Drop ==
  /\ UNCHANGED otherThanBuilder
  /\ pc = "v_loop"
  /\ todo = <<>>
  /\ drop_empty_columns
  /\ files' = Put(files, temp_output, table_drop_nan_columns(files[temp_input]))
  /\ temp_input' = temp_output
  /\ temp_output' = temp_input
  /\ pc' = "v_sort"
  /\ UNCHANGED <<tables, glob_order, drop_empty_columns, strategy, tempdirs, todo,
                 non_dated_columns, idx1, idx2, conn, joined, output, result>>

\* table_sort(temp_input, output_path)
V_Sort ==
  /\ UNCHANGED otherThanBuilder
  /\ \/ pc = "v_sort"
     \/ pc = "v_loop" /\ todo = <<>> /\ ~drop_empty_columns
  /\ Return(table_sort(files[temp_input]))
  /\ UNCHANGED <<tables, glob_order, drop_empty_columns, strategy, temp_input,
                 temp_output, todo, non_dated_columns, idx1, idx2, conn, joined>>

(***************************************************************************)
(* make_main_table_sqlite: the relational staged merge.                    *)
(***************************************************************************)
\* table_import_from_file(conn, cross_product_table_path, ...)
S_ImportCross ==
  /\ UNCHANGED otherThanBuilder
  /\ pc = "s_import"
  /\ conn' = Put(conn, "cross-product", files["cross-product.csv"])
  /\ idx1' = <<>>
  /\ idx2' = <<"cross-product">>
  /\ todo' = glob_order
  /\ pc' = "s_loop"
  /\ UNCHANGED <<tables, glob_order, drop_empty_columns, strategy, tempdirs, files,
                 temp_input, temp_output, non_dated_columns, joined, output, result>>

\* One turn of the loop over glob("*.csv"): import the table and file it under
\* idx2 (it has a date column) or idx1 (it has none).
S_Import ==
  /\ UNCHANGED otherThanBuilder
  /\ pc = "s_loop"
  /\ todo # <<>>
  /\ LET table_name == Head(todo)
         table == ReadTable(table_name)
     IN /\ conn' = Put(conn, table_name, table)
        /\ IF "date" \in Range(get_table_columns(table))
           THEN idx2' = Append(idx2, table_name) /\ idx1' = idx1
           ELSE idx1' = Append(idx1, table_name) /\ idx2' = idx2
        /\ joined' = [joined EXCEPT ![strategy] = Append(@, table_name)]
  /\ todo' = Tail(todo)
  /\ UNCHANGED <<tables, glob_order, drop_empty_columns, strategy, pc, tempdirs, files,
                 temp_input, temp_output, non_dated_columns, output, result>>

\* table_merge(conn, idx1, on=[key], how=join_method, into_table="_idx1")
S_MergeIdx1 ==
  /\ UNCHANGED otherThanBuilder
  /\ pc = "s_loop"
  /\ todo = <<>>
  /\ conn' = Put(conn, "_idx1", table_merge(conn, idx1, {"location_key"}))
  /\ pc' = "s_merge2"
  /\ UNCHANGED <<tables, glob_order, drop_empty_columns, strategy, tempdirs, files,
                 temp_input, temp_output, todo, non_dated_columns, idx1, idx2, joined,
                 output, result>>

\* table_merge(conn, idx2, on=[key, "date"], how=join_method, into_table="_idx2")
S_MergeIdx2 ==
  /\ UNCHANGED otherThanBuilder
  /\ pc = "s_merge2"
  /\ conn' = Put(conn, "_idx2", table_merge(conn, idx2, {"location_key", "date"}))
  /\ pc' = "s_merge3"
  /\ UNCHANGED <<tables, glob_order, drop_empty_columns, strategy, tempdirs, files,
                 temp_input, temp_output, todo, non_dated_columns, idx1, idx2, joined,
                 output, result>>

\* The final merge with the static relation as its base.
FinalMergeOrderReversed == <<"_idx1", "_idx2">>

\* The relations of the final merge, the base first.
FinalMergeOrder == <<"_idx2", "_idx1">>

\* table_merge(conn, ["_idx2", "_idx1"], on=[key], how=join_method, into_table="_main")
S_MergeMain ==
  /\ UNCHANGED otherThanBuilder
  /\ pc = "s_merge3"
  /\ conn' = Put(conn, "_main", table_merge(conn, FinalMergeOrder, {"location_key"}))
  /\ pc' = "s_export"
  /\ UNCHANGED <<tables, glob_order, drop_empty_columns, strategy, tempdirs, files,
                 temp_input, temp_output, todo, non_dated_columns, idx1, idx2, joined,
                 output, result>>

\* An export ordered by date first.
ExportSortByDate == <<"date", "location_key">>

\* The columns the relational strategy sorts its export by.
ExportSortBy == <<"location_key", "date">>

\* table_as_csv(conn, "_main", temp_output, sort_by=[key, "date"]), then the flip.
S_Export ==
  /\ UNCHANGED otherThanBuilder
  /\ pc = "s_export"
  /\ files' = Put(files, temp_output, table_as_csv(conn["_main"], ExportSortBy))
  /\ temp_input' = temp_output
  /\ temp_output' = temp_input
  /\ pc' = "s_drop"
  /\ UNCHANGED <<tables, glob_order, drop_empty_columns, strategy, tempdirs, todo,
                 non_dated_columns, idx1, idx2, conn, joined, output, result>>

S_Drop ==
  /\ UNCHANGED otherThanBuilder
  /\ pc = "s_drop"
  /\ drop_empty_columns
  /\ files' = Put(files, temp_output, table_drop_nan_columns(files[temp_input]))
  /\ temp_input' = temp_output
  /\ temp_output' = temp_input
  /\ pc' = "s_copy"
  /\ UNCHANGED <<tables, glob_order, drop_empty_columns, strategy, tempdirs, todo,
                 non_dated_columns, idx1, idx2, conn, joined, output, result>>

\* shutil.copy(temp_input, output_path)
S_Copy ==
  /\ UNCHANGED otherThanBuilder
  /\ \/ pc = "s_copy"
     \/ pc = "s_drop" /\ ~drop_empty_columns
  /\ Return(files[temp_input])
  /\ conn' = NoFiles
  /\ UNCHANGED <<tables, glob_order, drop_empty_columns, strategy, temp_input,
                 temp_output, todo, non_dated_columns, idx1, idx2, joined>>

\* A primitive of the running builder raises (an I/O error in a read, cross
\* product, join, drop, sort, move or copy): the exception leaves the with
\* blocks and the invocation, whose working state is gone with it.
B_Fail ==
  /\ UNCHANGED otherThanBuilder
  /\ pc \notin {"idle", "done", "failed"}
  /\ Raise
  /\ temp_input' = "tmp.1.csv"
  /\ temp_output' = "tmp.2.csv"
  /\ todo' = <<>>
  /\ non_dated_columns' = {}
  /\ idx1' = <<>>
  /\ idx2' = <<>>
  /\ conn' = NoFiles
  /\ joined' = [joined EXCEPT ![strategy] = <<>>]
  /\ UNCHANGED <<tables, glob_order, drop_empty_columns, strategy, output>>

\* What a write that stops part-way leaves at its destination: the file as it
\* was created, or (of the cuts after some of its rows) the file without its
\* last row.
PartialWrites(t) ==
  {Table(<<>>, <<>>)} \cup
  (IF t.rows = <<>> THEN {} ELSE {Table(t.header, SubSeq(t.rows, 1, Len(t.rows) - 1))})

\* The table the last step of the running builder writes to output_path.
FinalTable ==
  CASE strategy = "direct" -> table_sort(files["main.csv"])
    [] strategy = "v3" -> table_sort(files[temp_input])
    [] OTHER -> files[temp_input]

\* The last step of a builder raises while it writes: table_sort (171, 250)
\* and shutil.copy (329) are handed output_path itself as their destination,
\* so what was written before the error stays there.
B_FailWriting ==
  /\ UNCHANGED otherThanBuilder
  /\ \/ pc = "d_loop" /\ todo = <<>>
     \/ pc = "v_sort"
     \/ pc = "v_loop" /\ todo = <<>> /\ ~drop_empty_columns
     \/ pc = "s_copy"
     \/ pc = "s_drop" /\ ~drop_empty_columns
  /\ \E partial \in PartialWrites(FinalTable) : output' = Put(output, strategy, partial)
  /\ Raise
  /\ temp_input' = "tmp.1.csv"
  /\ temp_output' = "tmp.2.csv"
  /\ todo' = <<>>
  /\ non_dated_columns' = {}
  /\ idx1' = <<>>
  /\ idx2' = <<>>
  /\ conn' = NoFiles
  /\ joined' = [joined EXCEPT ![strategy] = <<>>]
  /\ UNCHANGED <<tables, glob_order, drop_empty_columns, strategy>>

NextBuilder ==
  \/ StartBuilder
  \/ B_Fail
  \/ B_FailWriting
  \/ D_Keys \/ D_Dates \/ D_Cross \/ D_Seed \/ D_Skip \/ D_Join \/ D_Sort
  \/ H_Assert \/ H_Keys \/ H_Dates \/ H_Cross
  \/ V_Swap \/ V_Skip \/ V_Join \/ V_Drop \/ V_Sort
  \/ S_ImportCross \/ S_Import \/ S_MergeIdx1 \/ S_MergeIdx2 \/ S_MergeMain
  \/ S_Export \/ S_Drop \/ S_Copy

(***************************************************************************)
(* _subset_grouped_key: the single-pass split of the main table by key.    *)
(* A line is its key (the text before the first comma) and the rest.       *)
(***************************************************************************)
\* Largest number of data lines of the partitioner's input.
MaxLines == 3

KeyB == <<66>>
PartitionKeys == AllKeys \cup {KeyB}

\* The variables of the other components.
otherThanPartitioner == <<builderVars, publishVars, latestVars>>

Line(key, data) == [key |-> key, data |-> data]
\* The header of the main table: "location_key,date,...".
HeaderLine == Line(<<108>>, 0)

\* None, for current_key, key_folder and file_handle.
None == <<0>>

\* The files a main table may be: the header, then data lines (told apart by
\* their number), in any order of their keys.
MainTables ==
  UNION {{<<HeaderLine>> \o [i \in 1..n |-> Line(ks[i], i)] :
            ks \in [1..n -> PartitionKeys]} : n \in 0..MaxLines}

\* The distinct keys of the data lines: key_set of the first sweep.
DataKeys(file) == {file[i].key : i \in 2..Len(file)}

\* A file opened without its header.
OpenMainCsvNoHeader(fs, key, header) == Put(fs, key, <<>>)

\* (key_folder / "main.csv").open("w") and file_handle.write(f"{header}"):
\* the file is created, or truncated, and starts with the header.
OpenMainCsv(fs, key, header) == Put(fs, key, <<header>>)

\* A write that goes to one file of the folder, whatever handle is current.
WriteLineToAny(fs, handle, line) ==
  [fs EXCEPT ![CHOOSE k \in DOMAIN fs : TRUE] = Append(@, line)]

\* file_handle.write(f"{key},{data}")
WriteLine(fs, handle, line) == [fs EXCEPT ![handle] = Append(@, line)]

InitPartitioner ==
  /\ main_table \in MainTables
  /\ p_pc = "start"
  /\ idx = 0
  /\ current_key = None
  /\ key_folder = None
  /\ file_handle = None
  /\ open_handles = {}
  /\ out_files = NoFiles
  /\ yielded = <<>>
  /\ progress = <<0, 0>>

\* The first next(): the header is read and the keys are counted.
P_Start ==
  /\ p_pc = "start"
  /\ progress' = <<0, Cardinality(DataKeys(main_table) \cup {main_table[1].key})>>
  /\ p_pc' = "loop"
  /\ UNCHANGED <<main_table, idx, current_key, key_folder, file_handle, open_handles,
                 out_files, yielded>>
  /\ UNCHANGED otherThanPartitioner

\* if idx == 0: continue
P_SkipHeader ==
  /\ p_pc = "loop"
  /\ idx = 0
  /\ idx' = 1
  /\ UNCHANGED <<main_table, p_pc, current_key, key_folder, file_handle, open_handles,
                 out_files, yielded, progress>>
  /\ UNCHANGED otherThanPartitioner

\* The line the sweep is at.
ThisLine == main_table[idx + 1]

\* What follows the yield (or the test, for the first key): the folder and file of
\* the new key are opened, and the line is written.
OpenAndWrite ==
  /\ current_key' = ThisLine.key
  /\ key_folder' = ThisLine.key
  /\ file_handle' = ThisLine.key
  /\ open_handles' = (IF p_pc = "yield" THEN open_handles ELSE open_handles \ {file_handle})
                       \cup {ThisLine.key}
  /\ out_files' = WriteLine(OpenMainCsv(out_files, ThisLine.key, main_table[1]),
                            ThisLine.key, ThisLine)
  /\ progress' = <<progress[1] + 1, progress[2]>>
  /\ idx' = idx + 1
  /\ p_pc' = "loop"

\* A line of the key that is open.
P_SameKey ==
  /\ p_pc = "loop"
  /\ 0 < idx /\ idx < Len(main_table)
  /\ current_key = ThisLine.key
  /\ out_files' = WriteLine(out_files, file_handle, ThisLine)
  /\ idx' = idx + 1
  /\ UNCHANGED <<main_table, p_pc, current_key, key_folder, file_handle, open_handles,
                 yielded, progress>>
  /\ UNCHANGED otherThanPartitioner

\* The first data line: there is no file to close and no folder to yield.
P_FirstKey ==
  /\ p_pc = "loop"
  /\ 0 < idx /\ idx < Len(main_table)
  /\ current_key # ThisLine.key
  /\ key_folder = None
  /\ OpenAndWrite
  /\ UNCHANGED <<main_table, yielded>>
  /\ UNCHANGED otherThanPartitioner

\* The key changes: the open file is closed and the folder of the previous key is
\* yielded; the generator is suspended there.
P_Yield ==
  /\ p_pc = "loop"
  /\ 0 < idx /\ idx < Len(main_table)
  /\ current_key # ThisLine.key
  /\ key_folder # None
  /\ open_handles' = open_handles \ {file_handle}
  /\ yielded' = Append(yielded, key_folder)
  /\ p_pc' = "yield"
  /\ UNCHANGED <<main_table, idx, current_key, key_folder, file_handle, out_files,
                 progress>>
  /\ UNCHANGED otherThanPartitioner

\* The consumer asks for the next path: the generator goes on after the yield.
P_Resume ==
  /\ p_pc = "yield"
  /\ OpenAndWrite
  /\ UNCHANGED <<main_table, yielded>>
  /\ UNCHANGED otherThanPartitioner

\* After the last line: file_handle.close(), an AttributeError when no file was
\* ever opened, and progress_bar.close().
P_Finish ==
  /\ p_pc = "loop"
  /\ idx = Len(main_table)
  /\ IF file_handle = None
     THEN p_pc' = "error" /\ UNCHANGED open_handles
     ELSE p_pc' = "done" /\ open_handles' = open_handles \ {file_handle}
  /\ UNCHANGED <<main_table, idx, current_key, key_folder, file_handle, out_files,
                 yielded, progress>>
  /\ UNCHANGED otherThanPartitioner

NextPartitioner ==
  P_Start \/ P_SkipHeader \/ P_SameKey \/ P_FirstKey \/ P_Yield \/ P_Resume \/ P_Finish

\* The partitioner at rest, while another component runs.
IdlePartitioner ==
  /\ main_table = <<HeaderLine>>
  /\ p_pc = "idle"
  /\ idx = 0
  /\ current_key = None
  /\ key_folder = None
  /\ file_handle = None
  /\ open_handles = {}
  /\ out_files = NoFiles
  /\ yielded = <<>>
  /\ progress = <<0, 0>>

\* The builders at rest, while another component runs.
IdleBuilder ==
  /\ tables = NoFiles
  /\ glob_order = <<>>
  /\ drop_empty_columns = FALSE
  /\ strategy = "none"
  /\ pc = "off"
  /\ tempdirs = {}
  /\ files = NoFiles
  /\ temp_input = "tmp.1.csv"
  /\ temp_output = "tmp.2.csv"
  /\ todo = <<>>
  /\ non_dated_columns = {}
  /\ idx1 = <<>>
  /\ idx2 = <<>>
  /\ conn = NoFiles
  /\ joined = [s \in Range(Strategies) |-> <<>>]
  /\ output = NoFiles
  /\ result = [s \in Range(Strategies) |-> "pending"]

(***************************************************************************)
(* Paths of the output folder: a path is its sequence of tokens, a folder   *)
(* or file name, "/", or an extension.                                      *)
(***************************************************************************)
TablePath(t) == <<t, ".csv">>
KeyPath(k, t) == <<k, "/", t, ".csv">>

\* The location keys of a published table.
TableKeys(t) == IF t = "index" THEN <<"A", "AB">> ELSE <<"A">>

\* A wipe that takes every entry for a hidden one.
HiddenAll(path) == TRUE

\* item.name.startswith(".")
Hidden(path) == path[1] = ".gitignore"

\* What an earlier run left in the output folder.
StaleTree == [q \in {<<"old", ".csv">>, <<".gitignore">>} |-> "complete"]

\* The CSV files convert_tables_to_json may find under csv_folder.
CsvUniverse == { <<"index", ".csv">>,
                 <<"latest", "/", "index", ".csv">>,
                 <<"x", ".csv", "/", "index", ".csv">>,
                 <<"x", ".json", "/", "index", ".csv">> }

\* Largest number of files of a mirror conversion.
MaxMirrorFiles == 3

\* output_path.glob("*.csv"): the CSV files of the top of the folder.
TopCsv(tr) == {q \in DOMAIN tr : Len(q) = 2 /\ q[2] = ".csv"}
\* csv_folder.glob("**/*.csv"): the CSV files at any depth.
AllCsv(tr) == {q \in DOMAIN tr : q[Len(q)] = ".csv"}

\* str(csv_file.relative_to(csv_folder)).replace(".csv", ".json")
JsonOutput(csv_file) ==
  [i \in 1..Len(csv_file) |-> IF csv_file[i] = ".csv" THEN ".json" ELSE csv_file[i]]

\* latest_path / csv_file.name
LatestOutput(csv_file) ==
  <<"latest", "/", csv_file[Len(csv_file) - 1], csv_file[Len(csv_file)]>>

\* Every aggregation written to one main.csv at the top of the folder.
AggregateOutputShared(item) == <<"main", ".csv">>

\* output_folder / key / "main.csv"
AggregateOutput(item) == <<item[1], "/", "main", ".csv">>

\* The file a task of the batch writes.
OutPath(stage, item) ==
  CASE stage = "mirror" -> JsonOutput(item)
    [] stage = "latest" -> LatestOutput(item)
    [] OTHER -> AggregateOutput(item)

\* A task function that lets nothing out.
CatchesAll(stage) == TRUE
\* A task function that catches nothing.
CatchesNone(stage) == FALSE

\* Whether the task function of the stage catches the exception of its work:
\* try_json_covert does (except Exception), subset_latest and the lambda of
\* publish_location_aggregates do not.
Catches(stage) == stage = "mirror"

\* max_workers of the mirror conversion.
JsonMaxWorkers == 2
\* The size of thread_map's pool when max_workers is not given.
DefaultWorkers == 2
MaxWorkers(stage) == IF stage = "mirror" THEN JsonMaxWorkers ELSE DefaultWorkers

\* main_v3 with its breakouts called before the global tables are published.
StageAfterSwapped(r, stage) ==
  CASE r = "main_v3" /\ stage = "wipe" -> "breakout"
    [] r = "main_v3" /\ stage = "breakout" -> "rename"
    [] r = "main_v3" /\ stage = "rename" -> "sort"
    [] r = "main_v3" /\ stage = "sort" -> "read_keys"
    [] r = "main_v3" /\ stage = "read_keys" -> "aggregate"
    [] r = "main_v2" /\ stage = "wipe" -> "copy"
    [] r = "main_v2" /\ stage = "copy" -> "make_main"
    [] r = "main_v2" /\ stage = "make_main" -> "subsets"
    [] r = "main_v2" /\ stage = "subsets" -> "json"
    [] r = "create_table_subsets" /\ stage = "latest" -> "partition"
    [] OTHER -> "done"

\* The order of the calls of a run: the position that follows each.
StageAfter(r, stage) ==
  CASE r = "main_v3" /\ stage = "wipe" -> "rename"
    [] r = "main_v3" /\ stage = "rename" -> "sort"
    [] r = "main_v3" /\ stage = "sort" -> "breakout"
    [] r = "main_v3" /\ stage = "breakout" -> "read_keys"
    [] r = "main_v3" /\ stage = "read_keys" -> "aggregate"
    [] r = "main_v2" /\ stage = "wipe" -> "copy"
    [] r = "main_v2" /\ stage = "copy" -> "make_main"
    [] r = "main_v2" /\ stage = "make_main" -> "subsets"
    [] r = "main_v2" /\ stage = "subsets" -> "json"
    [] r = "create_table_subsets" /\ stage = "latest" -> "partition"
    [] OTHER -> "done"

\* What the loop of a stage goes over: the glob of its folder.
StageItems(stage, tr) ==
  CASE stage \in {"rename", "sort", "copy"} -> SetToSeq(input_tables)
    [] stage = "breakout" -> SetToSeq({q[1] : q \in TopCsv(tr)})
    [] OTHER -> <<>>

\* The variables of the other components.
otherThanPublish == <<builderVars, partitionerVars, latestVars>>

InitPublish ==
  /\ run \in {"main_v3", "main_v2", "create_table_subsets", "convert_tables_to_json"}
  /\ \/ /\ run \in {"main_v3", "main_v2"}
        /\ input_tables \in SUBSET {"index", "epidemiology"}
        /\ tree \in {NoFiles, StaleTree}
        /\ r_pc = "wipe"
     \/ /\ run = "create_table_subsets"
        /\ input_tables = {}
        /\ \E S \in SUBSET {"index", "epidemiology", "main"} :
             tree = [q \in {TablePath(t) : t \in S} |-> "complete"]
        /\ r_pc = "subsets_start"
     \/ /\ run = "convert_tables_to_json"
        /\ input_tables = {}
        /\ \E S \in SUBSET CsvUniverse :
             /\ Cardinality(S) <= MaxMirrorFiles
             /\ tree = [q \in S |-> "complete"]
        /\ r_pc = "json_start"
  /\ renamed = {}
  /\ published = {}
  /\ broken_out = {}
  /\ r_todo = <<>>
  /\ location_keys = <<>>
  /\ generators = {}
  /\ fan_stage = "none"
  /\ items = <<>>
  /\ task = <<>>
  /\ consumed = 0
  /\ batch = "none"
  /\ log = {}
  /\ f_yielded = <<>>

\* The publish run at rest, while another component runs.
IdlePublish ==
  /\ run = "none"
  /\ r_pc = "off"
  /\ input_tables = {}
  /\ tree = NoFiles
  /\ renamed = {}
  /\ published = {}
  /\ broken_out = {}
  /\ r_todo = <<>>
  /\ location_keys = <<>>
  /\ generators = {}
  /\ fan_stage = "none"
  /\ items = <<>>
  /\ task = <<>>
  /\ consumed = 0
  /\ batch = "none"
  /\ log = {}
  /\ f_yielded = <<>>

(***************************************************************************)
(* The publish runs.  main_v3 and main_v2 are the orchestrated runs; the     *)
(* two generators are also run on their own by a caller that consumes them.  *)
(***************************************************************************)
\* The batch of a fan-out stage handed to thread_map.
StartBatch(stage, its) ==
  /\ fan_stage' = stage
  /\ items' = its
  /\ task' = [i \in 1..Len(its) |-> "queued"]
  /\ consumed' = 0
  /\ batch' = "running"

\* Clear the output folder but the hidden entries, then create it.
R_Wipe ==
  /\ UNCHANGED otherThanPublish
  /\ r_pc = "wipe"
  /\ tree' = Remove(tree, {q \in DOMAIN tree : ~Hidden(q)})
  /\ r_pc' = StageAfter(run, "wipe")
  /\ r_todo' = StageItems(StageAfter(run, "wipe"), tree')
  /\ UNCHANGED <<run, input_tables, renamed, published, broken_out, location_keys,
                 generators, fan_stage, items, task, consumed, batch, log, f_yielded>>

\* The loop of a stage is over: the run goes to its next call.
R_NextStage ==
  /\ UNCHANGED otherThanPublish
  /\ r_pc \in {"rename", "sort", "breakout", "copy"}
  /\ r_todo = <<>>
  /\ r_pc' = StageAfter(run, r_pc)
  /\ r_todo' = StageItems(StageAfter(run, r_pc), tree)
  /\ UNCHANGED <<run, input_tables, tree, renamed, published, broken_out, location_keys,
                 generators, fan_stage, items, task, consumed, batch, log, f_yielded>>

\* publish_global_tables: rename the columns of one table into the work folder.
R_Rename ==
  /\ UNCHANGED otherThanPublish
  /\ r_pc = "rename"
  /\ r_todo # <<>>
  /\ renamed' = renamed \cup {Head(r_todo)}
  /\ r_todo' = Tail(r_todo)
  /\ UNCHANGED <<run, r_pc, input_tables, tree, published, broken_out, location_keys,
                 generators, fan_stage, items, task, consumed, batch, log, f_yielded>>

\* publish_global_tables: sort one renamed table into the output folder.
R_Sort ==
  /\ UNCHANGED otherThanPublish
  /\ r_pc = "sort"
  /\ r_todo # <<>>
  /\ tree' = Put(tree, TablePath(Head(r_todo)), "complete")
  /\ published' = published \cup {Head(r_todo)}
  /\ r_todo' = Tail(r_todo)
  /\ UNCHANGED <<run, r_pc, input_tables, renamed, broken_out, location_keys,
                 generators, fan_stage, items, task, consumed, batch, log, f_yielded>>

\* publish_location_breakouts: break one table out by location key.
R_Breakout ==
  /\ UNCHANGED otherThanPublish
  /\ r_pc = "breakout"
  /\ r_todo # <<>>
  /\ LET t == Head(r_todo)
         new == {KeyPath(TableKeys(t)[i], t) : i \in 1..Len(TableKeys(t))}
     IN tree' = [q \in (DOMAIN tree) \cup new |-> "complete"]
  /\ broken_out' = broken_out \cup {Head(r_todo)}
  /\ r_todo' = Tail(r_todo)
  /\ UNCHANGED <<run, r_pc, input_tables, renamed, published, location_keys,
                 generators, fan_stage, items, task, consumed, batch, log, f_yielded>>

\* main_v3 reads the location keys of the published index and hands the
\* aggregation of each to thread_map.
R_ReadKeys ==
  /\ UNCHANGED otherThanPublish
  /\ r_pc = "read_keys"
  /\ IF TablePath("index") \in DOMAIN tree
     THEN /\ location_keys' = TableKeys("index")
          /\ StartBatch("aggregate", [i \in 1..Len(TableKeys("index")) |->
                                        <<TableKeys("index")[i]>>])
          /\ r_pc' = StageAfter(run, "read_keys")
     ELSE /\ r_pc' = "error"
          /\ UNCHANGED <<location_keys, fan_stage, items, task, consumed, batch>>
  /\ UNCHANGED <<run, input_tables, tree, renamed, published, broken_out, r_todo,
                 generators, log, f_yielded>>

\* copy_tables: copy one input table into the output folder.
R_Copy ==
  /\ UNCHANGED otherThanPublish
  /\ r_pc = "copy"
  /\ r_todo # <<>>
  /\ tree' = Put(tree, TablePath(Head(r_todo)), "complete")
  /\ published' = published \cup {Head(r_todo)}
  /\ r_todo' = Tail(r_todo)
  /\ UNCHANGED <<run, r_pc, input_tables, renamed, broken_out, location_keys,
                 generators, fan_stage, items, task, consumed, batch, log, f_yielded>>

\* main_v2 builds the global main table from the input tables.
R_MakeMain ==
  /\ UNCHANGED otherThanPublish
  /\ r_pc = "make_main"
  /\ IF "index" \in input_tables
     THEN /\ tree' = Put(tree, TablePath("main"), "complete")
          /\ r_pc' = StageAfter(run, "make_main")
     ELSE /\ r_pc' = "error"
          /\ UNCHANGED tree
  /\ UNCHANGED <<run, input_tables, renamed, published, broken_out, r_todo, location_keys,
                 generators, fan_stage, items, task, consumed, batch, log, f_yielded>>

\* main_v2 calls create_table_subsets: the call makes a generator, whose
\* body runs when it is iterated; main_v2 does not iterate it.
R_Subsets ==
  /\ UNCHANGED otherThanPublish
  /\ r_pc = "subsets"
  /\ generators' = generators \cup {"create_table_subsets"}
  /\ r_pc' = StageAfter(run, "subsets")
  /\ UNCHANGED <<run, input_tables, tree, renamed, published, broken_out, r_todo,
                 location_keys, fan_stage, items, task, consumed, batch, log, f_yielded>>

\* main_v2 calls convert_tables_to_json: again a generator it does not iterate.
R_Json ==
  /\ UNCHANGED otherThanPublish
  /\ r_pc = "json"
  /\ generators' = generators \cup {"convert_tables_to_json"}
  /\ r_pc' = StageAfter(run, "json")
  /\ UNCHANGED <<run, input_tables, tree, renamed, published, broken_out, r_todo,
                 location_keys, fan_stage, items, task, consumed, batch, log, f_yielded>>

\* create_table_subsets, iterated: the latest subset of every table of the top
\* of the folder.
R_SubsetsStart ==
  /\ UNCHANGED otherThanPublish
  /\ r_pc = "subsets_start"
  /\ StartBatch("latest", SetToSeq(TopCsv(tree)))
  /\ r_pc' = "latest"
  /\ UNCHANGED <<run, input_tables, tree, renamed, published, broken_out, r_todo,
                 location_keys, generators, log, f_yielded>>

\* convert_tables_to_json, iterated: every CSV file under the folder.
R_JsonStart ==
  /\ UNCHANGED otherThanPublish
  /\ r_pc = "json_start"
  /\ StartBatch("mirror", SetToSeq(AllCsv(tree)))
  /\ r_pc' = "mirror"
  /\ UNCHANGED <<run, input_tables, tree, renamed, published, broken_out, r_todo,
                 location_keys, generators, log, f_yielded>>

(***************************************************************************)
(* thread_map: the tasks of a batch start in the order of the items, at     *)
(* most MaxWorkers at a time; their results are collected in that order,    *)
(* and collecting the result of a task that raised raises in the caller.    *)
(***************************************************************************)
InFlight == {i \in 1..Len(task) : task[i] \in {"running", "writing"}}

runVars == <<run, input_tables, renamed, published, broken_out, r_todo, location_keys,
             generators>>

\* A worker takes the next item.
T_Start(i) ==
  /\ UNCHANGED otherThanPublish
  /\ batch = "running"
  /\ task[i] = "queued"
  /\ \A j \in 1..(i - 1) : task[j] # "queued"
  /\ Cardinality(InFlight) < MaxWorkers(fan_stage)
  /\ task' = [task EXCEPT ![i] = "running"]
  /\ UNCHANGED <<runVars, r_pc, tree, fan_stage, items, consumed, batch, log, f_yielded>>

\* The task opens its output file and starts to write it.
T_Write(i) ==
  /\ UNCHANGED otherThanPublish
  /\ batch = "running"
  /\ task[i] = "running"
  /\ task' = [task EXCEPT ![i] = "writing"]
  /\ tree' = Put(tree, OutPath(fan_stage, items[i]), "partial")
  /\ UNCHANGED <<runVars, r_pc, fan_stage, items, consumed, batch, log, f_yielded>>

\* The task has written all of its output and returns its path.
T_Finish(i) ==
  /\ UNCHANGED otherThanPublish
  /\ batch = "running"
  /\ task[i] = "writing"
  /\ task' = [task EXCEPT ![i] = "ok"]
  /\ tree' = Put(tree, OutPath(fan_stage, items[i]), "complete")
  /\ UNCHANGED <<runVars, r_pc, fan_stage, items, consumed, batch, log, f_yielded>>

\* The work of the task raises, before or after its output was opened.  A
\* task function that catches logs the item and returns None; what was
\* written stays as it is.
T_Fail(i) ==
  /\ UNCHANGED otherThanPublish
  /\ batch = "running"
  /\ task[i] \in {"running", "writing"}
  /\ IF Catches(fan_stage)
     THEN /\ task' = [task EXCEPT ![i] = "none"]
          /\ log' = log \cup {items[i]}
     ELSE /\ task' = [task EXCEPT ![i] = "raised"]
          /\ UNCHANGED log
  /\ UNCHANGED <<runVars, r_pc, tree, fan_stage, items, consumed, batch, f_yielded>>

\* The caller collects the next result: an exception of the task is raised
\* in the caller and ends the run; a path is yielded by the generators; None
\* is dropped.
F_Collect ==
  /\ UNCHANGED otherThanPublish
  /\ batch = "running"
  /\ consumed < Len(items)
  /\ task[consumed + 1] \in {"ok", "none", "raised"}
  /\ IF task[consumed + 1] = "raised"
     THEN /\ batch' = "raised"
          /\ r_pc' = "error"
          /\ UNCHANGED <<consumed, f_yielded>>
     ELSE /\ consumed' = consumed + 1
          /\ f_yielded' = IF task[consumed + 1] = "ok" /\ fan_stage # "aggregate"
                          THEN Append(f_yielded, OutPath(fan_stage, items[consumed + 1]))
                          ELSE f_yielded
          /\ UNCHANGED <<batch, r_pc>>
  /\ UNCHANGED <<runVars, tree, fan_stage, items, task, log>>

\* Every result was collected: the batch call returns and the run goes on.
F_Return ==
  /\ UNCHANGED otherThanPublish
  /\ batch = "running"
  /\ consumed = Len(items)
  /\ batch' = "returned"
  /\ r_pc' = StageAfter(run, fan_stage)
  /\ UNCHANGED <<runVars, tree, fan_stage, items, task, consumed, log, f_yielded>>

NextPublish ==
  \/ R_Wipe
  \/ R_NextStage
  \/ R_Rename
  \/ R_Sort
  \/ R_Breakout
  \/ R_ReadKeys
  \/ R_Copy
  \/ R_MakeMain
  \/ R_Subsets
  \/ R_Json
  \/ R_SubsetsStart
  \/ R_JsonStart
  \/ \E i \in 1..Len(task) : T_Start(i)
  \/ \E i \in 1..Len(task) : T_Write(i)
  \/ \E i \in 1..Len(task) : T_Finish(i)
  \/ \E i \in 1..Len(task) : T_Fail(i)
  \/ F_Collect
  \/ F_Return

(***************************************************************************)
(* subset_latest: table_group_tail(csv_file, output_file), a streaming pass *)
(* that writes the last row of every group of rows of one key.              *)
(***************************************************************************)
\* Largest number of data rows of a copied topic table.
MaxLatestRows == 3

otherThanLatest == <<builderVars, partitionerVars, publishVars>>

\* The files copy_tables may have put in the folder: the rows of a dated
\* topic table, one per (key, date), in the order of the input file.
CopiedTables ==
  LET records == AllKeys \X (1..NumDates)
      orders == UNION {[1..n -> records] : n \in 0..MaxLatestRows}
  IN {[i \in 1..Len(q) |-> <<q[i][1], DateStr(q[i][2])>>] :
        q \in {o \in orders : \A i, j \in 1..Len(o) : i # j => o[i] # o[j]}}

\* The main tables make_main_table may have written there: sorted.
SortedMainTables ==
  {table_sort(Table(<<"key", "date">>,
                    CrossRows([i \in 1..Len(keys) |-> <<keys[i]>>], DatesTable.rows))).rows :
     keys \in IndexOptions}

InitLatest ==
  /\ csv_kind \in {"copy", "main"}
  /\ csv_rows \in IF csv_kind = "copy" THEN CopiedTables ELSE SortedMainTables
  /\ t_pc = "start"
  /\ t_pos = 0
  /\ t_output = <<>>

IdleLatest ==
  /\ csv_kind = "none"
  /\ csv_rows = <<>>
  /\ t_pc = "off"
  /\ t_pos = 0
  /\ t_output = <<>>

\* output_file = latest_path / csv_file.name, and the pass starts.
L_Start ==
  /\ UNCHANGED otherThanLatest
  /\ t_pc = "start"
  /\ t_pc' = "rows"
  /\ UNCHANGED <<csv_kind, csv_rows, t_pos, t_output>>

\* The pass reads a row: when its key is not that of the row before, the row
\* before was the last of its group and is written.
L_Row ==
  /\ UNCHANGED otherThanLatest
  /\ t_pc = "rows"
  /\ t_pos < Len(csv_rows)
  /\ t_output' = IF t_pos >= 1 /\ csv_rows[t_pos][1] # csv_rows[t_pos + 1][1]
                 THEN Append(t_output, csv_rows[t_pos])
                 ELSE t_output
  /\ t_pos' = t_pos + 1
  /\ UNCHANGED <<csv_kind, csv_rows, t_pc>>

\* The end of the file: the last row read is the last of its group.
L_End ==
  /\ UNCHANGED otherThanLatest
  /\ t_pc = "rows"
  /\ t_pos = Len(csv_rows)
  /\ t_output' = IF t_pos >= 1 THEN Append(t_output, csv_rows[t_pos]) ELSE t_output
  /\ t_pc' = "done"
  /\ UNCHANGED <<csv_kind, csv_rows, t_pos>>

NextLatest == L_Start \/ L_Row \/ L_End

(***************************************************************************)
(* Specifications: one per component, the others at rest.                  *)
(***************************************************************************)
Init == InitBuilder /\ IdlePartitioner /\ IdlePublish /\ IdleLatest
Next == NextBuilder
\* The three builders, run over one folder.
Spec == Init /\ [][Next]_vars

\* The partitioner, consumed to its end.
InitP == IdleBuilder /\ InitPartitioner /\ IdlePublish /\ IdleLatest
SpecPartitioner == InitP /\ [][NextPartitioner]_vars

InitR == IdleBuilder /\ IdlePartitioner /\ InitPublish /\ IdleLatest
SpecPublish == InitR /\ [][NextPublish]_vars

InitL == IdleBuilder /\ IdlePartitioner /\ IdlePublish /\ InitLatest
SpecLatest == InitL /\ [][NextLatest]_vars

(***************************************************************************)
(* Properties of the builders.                                             *)
(***************************************************************************)
Finished(s) == result[s] = "ok"

\* The keys the index table lists.
IndexKeys == Range(table_read_column(tables["index"], "location_key"))

\* The rows of a table with that key and that date.
RowsAt(t, key_column, k, d) ==
  {i \in 1..Len(t.rows) :
     /\ t.rows[i][ColIndex(t.header, key_column)] = k
     /\ t.rows[i][ColIndex(t.header, "date")] = DateStr(d)}

KeyDateUniverse(s) ==
  LET t == output[s]
  IN /\ Len(t.rows) = Cardinality(IndexKeys) * NumDates
     /\ Len(t.rows) > 0 =>
          \A k \in IndexKeys, d \in 1..NumDates :
            Cardinality(RowsAt(t, KeyColumn(s), k, d)) = 1

RowSet(t) ==
  {{<<IF t.header[c] = "key" THEN "location_key" ELSE t.header[c], t.rows[i][c]>> :
      c \in 1..Len(t.header)} : i \in 1..Len(t.rows)}

\* C2: over the same folder the three builders write the same set of rows, up to
\* the order of the columns.
C2_StrategyEquivalence ==
  (/\ \A s \in Range(Strategies) : Finished(s)
   /\ ~drop_empty_columns)
  => /\ RowSet(output["direct"]) = RowSet(output["v3"])
     /\ RowSet(output["v3"]) = RowSet(output["sqlite"])

Sorted(t) ==
  \A i \in 1..(Len(t.rows) - 1) :
    StrLeq(RowString(t.rows[i]), RowString(t.rows[i + 1]))

Contiguous(file) ==
  \A i, j \in 2..Len(file) :
    (i < j /\ file[i].key = file[j].key) => \A m \in i..j : file[m].key = file[i].key

\* The data lines of a key, in the order of the file.
DataLinesOf(file, k) == SelectSeq(SubSeq(file, 2, Len(file)), LAMBDA l : l.key = k)

\* C4: over a main table whose keys are contiguous, the consumed partitioner has
\* written one file per distinct key, and the file of a key is the header followed
\* by the lines of that key, each once, in the order of the input.
C4_PartitionerCorrect ==
  (p_pc \in {"done", "error"} /\ Contiguous(main_table)) =>
    /\ DOMAIN out_files = DataKeys(main_table)
    /\ \A k \in DOMAIN out_files :
         out_files[k] = <<main_table[1]>> \o DataLinesOf(main_table, k)

\* C4's case: a sorted table of two keys, one of them with two lines, split.
C4_Witness ==
  /\ p_pc = "done"
  /\ Contiguous(main_table)
  /\ Cardinality(DataKeys(main_table)) = 2
  /\ Len(main_table) = 4

\* The tasks of the batch whose result is a path and not None or an exception.
OkTasks(n) == {i \in 1..n : task[i] = "ok"}

\* The output paths of the ok tasks among the first n, in the order of the items.
RECURSIVE YieldedUpTo(_)
YieldedUpTo(n) ==
  IF n = 0 THEN <<>>
  ELSE IF task[n] = "ok"
       THEN Append(YieldedUpTo(n - 1), OutPath(fan_stage, items[n]))
       ELSE YieldedUpTo(n - 1)

\* An item whose output path no other item of the batch shares.
OwnOutput(i) ==
  \A j \in 1..Len(items) :
    j # i => OutPath(fan_stage, items[j]) # OutPath(fan_stage, items[i])

C6_NoPartialMirror ==
  (fan_stage = "mirror" /\ batch = "returned") =>
    \A i \in 1..Len(items) :
      LET out == OutPath(fan_stage, items[i])
      IN \/ out \in DOMAIN tree /\ tree[out] = "complete"
         \/ out \notin DOMAIN tree /\ items[i] \in log

\* C7: the stages of an orchestrated run are barriers: every table is renamed
\* and sorted into the output folder before the first breakout, every table
\* is broken out before the first aggregation task, and every table (and
\* main_v2's main table) is published before the mirror conversion is called.
C7_StageBarriers ==
  /\ (r_pc = "breakout" \/ broken_out # {}) =>
       /\ renamed = input_tables
       /\ published = input_tables
  /\ fan_stage = "aggregate" =>
       /\ published = input_tables
       /\ broken_out = input_tables
  /\ (run \in {"main_v3", "main_v2"}
        /\ (fan_stage = "mirror" \/ "convert_tables_to_json" \in generators)) =>
       /\ published = input_tables
       /\ TablePath("main") \in DOMAIN tree

\* An aggregation task of main_v3 has started, after both tables were
\* published and broken out.
C7_Witness ==
  /\ run = "main_v3"
  /\ fan_stage = "aggregate"
  /\ \E i \in 1..Len(task) : task[i] # "queued"
  /\ broken_out = {"index", "epidemiology"}

\* C8: when main_v2 returns without error the output tree holds every input
\* table, the main table, a latest/ file and a mirrored file of each of them
\* and a <key>/main.csv of every location key.
C8_FullyPopulated ==
  (run = "main_v2" /\ r_pc = "done") =>
    /\ \A t \in input_tables \cup {"main"} :
         /\ TablePath(t) \in DOMAIN tree
         /\ LatestOutput(TablePath(t)) \in DOMAIN tree
         /\ JsonOutput(TablePath(t)) \in DOMAIN tree
    /\ \A i \in 1..Len(TableKeys("index")) :
         KeyPath(TableKeys("index")[i], "main") \in DOMAIN tree

\* C9: an orchestrated run whose input has no index table fails before any
\* table was published or broken out.
C9_AbortBeforePublishing ==
  (run \in {"main_v3", "main_v2"} /\ "index" \notin input_tables /\ r_pc = "error") =>
    /\ published = {}
    /\ broken_out = {}

\* C10: in the latest subsets and in the aggregation of the locations the
\* exception of a task is not swallowed: no task returns None and nothing is
\* logged, a batch that returned, and a run that went past it, had every task
\* succeed, and a batch in which a collected task raised ends the run with
\* the error.
C10_FailFast ==
  fan_stage \in {"latest", "aggregate"} =>
    /\ \A i \in 1..Len(task) : task[i] # "none"
    /\ log = {}
    /\ (batch = "returned" \/ r_pc \in {"done", "partition"}) =>
         \A i \in 1..Len(task) : task[i] = "ok"
    /\ \A i \in 1..consumed : task[i] = "ok"
    /\ batch = "raised" =>
         /\ task[consumed + 1] = "raised"
         /\ r_pc = "error"

\* The aggregation of the second location raised after the first succeeded,
\* and main_v3 ended with the error.
C10_Witness ==
  /\ run = "main_v3"
  /\ fan_stage = "aggregate"
  /\ Len(task) = 2
  /\ task[1] = "ok"
  /\ task[2] = "raised"
  /\ batch = "raised"
  /\ r_pc = "error"

\* C11: a builder that is running has its temporary working directory, and
\* when the invocation has exited, by its return or by an exception of any of
\* its steps, no temporary directory and none of its files is left.
C11_TempDirRemoved ==
  /\ pc \in {"idle", "done", "failed"} => (tempdirs = {} /\ files = NoFiles)
  /\ pc \notin {"idle", "done", "failed"} => "workdir" \in tempdirs
  /\ \A n \in DOMAIN files : tempdirs # {}

\* The sqlite builder has just failed in one of its steps (the index is there),
\* after the direct builder and the v3 builder had returned.
C11_Witness ==
  /\ "index" \in DOMAIN tables
  /\ strategy = "sqlite"
  /\ pc = "failed"
  /\ result["direct"] = "ok"
  /\ result["v3"] = "ok"
  /\ result["sqlite"] = "failed"
  /\ tempdirs = {}

\* The cell of a row of a table in the column of that name.
CellAt(t, i, c) == t.rows[i][ColIndex(t.header, c)]

\* The topic tables of the folder (all but a main.csv of an earlier run).
TopicTables == (DOMAIN tables) \ {"main"}

\* The rows of a topic table that a row of the main table of builder s is
\* joined with: those of its key, and of its date when the table is dated.
SourceRows(s, n, i) ==
  LET t == tables[n]
      out == output[s]
  IN {j \in 1..Len(t.rows) :
        /\ CellAt(t, j, "location_key") = CellAt(out, i, KeyColumn(s))
        /\ "date" \in Range(t.header) => CellAt(t, j, "date") = CellAt(out, i, "date")}

\* Every cell of the main table of builder s holds what its topic table holds
\* for the row's key (and date), and is null where the table has no such row.
CellsFromSource(s) ==
  \A n \in TopicTables :
    \A c \in (Range(tables[n].header) \ {"location_key", "date"}) \cap Range(output[s].header) :
      \A i \in 1..Len(output[s].rows) :
        IF SourceRows(s, n, i) = {}
        THEN CellAt(output[s], i, c) = Null
        ELSE \E j \in SourceRows(s, n, i) : CellAt(output[s], i, c) = CellAt(tables[n], j, c)

\* C12: in the main table a static column holds, on every dated row of a key,
\* the static table's value for that key (null only where the table has no
\* row for the key), and a dated column is non-null only on the (key, date)
\* rows of its source table, where it holds the source's value.
C12_StaticColumnsStable ==
  \A s \in Range(Strategies) : Finished(s) => CellsFromSource(s)

\* The columns of a topic table under the names builder s reads them by.
ColumnsAsRead(s, n) ==
  {IF c = "location_key" THEN KeyColumn(s) ELSE c : c \in Range(tables[n].header)}

\* The topic tables of the folder that are not on the exclusion list.
Included == (DOMAIN tables) \ EXCLUDE_FROM_MAIN_TABLE

\* The header of the working table of the running builder, once it has one.
WorkingHeader ==
  CASE pc = "d_loop" -> Range(files["main.csv"].header)
    [] pc \in {"v_loop", "v_sort", "s_drop", "s_copy"} -> Range(files[temp_input].header)
    [] pc = "s_export" -> Range(conn["_main"].header)
    [] OTHER -> {}

\* C13: with empty-column dropping disabled the header of the main table of
\* each builder holds every column of every topic table that is not on the
\* exclusion list, and while a builder runs its working table holds every
\* column of the tables joined so far: no step removes one.
C13_ColumnSuperset ==
  /\ \A s \in Range(Strategies) :
       (Finished(s) /\ (s = "direct" \/ ~drop_empty_columns)) =>
         \A n \in Included : ColumnsAsRead(s, n) \subseteq Range(output[s].header)
  /\ (pc \in {"d_loop", "v_loop", "s_export"}
        \/ (pc \in {"s_drop", "v_sort", "s_copy"} /\ ~drop_empty_columns)) =>
       \A n \in Range(joined[strategy]) :
         ColumnsAsRead(strategy, n) \subseteq WorkingHeader

\* The three builders have finished without dropping, over an index of two
\* keys, a static table and a dated table whose column is null on every row
\* of the main table.
C13_Witness ==
  /\ \A s \in Range(Strategies) : Finished(s)
  /\ ~drop_empty_columns
  /\ Cardinality(IndexKeys) = 2
  /\ {"demographics", "epidemiology"} \subseteq DOMAIN tables
  /\ Len(tables["epidemiology"].rows) > 0
  /\ \A s \in Range(Strategies) :
       /\ "new_confirmed" \in Range(output[s].header)
       /\ \A i \in 1..Len(output[s].rows) : CellAt(output[s], i, "new_confirmed") = Null

\* The columns of a table that hold a value in some row.
NonNullColumns(t) ==
  {c \in Range(t.header) : \E i \in 1..Len(t.rows) : CellAt(t, i, c) # Null}

\* Table d is table t without its all-null columns: the same rows, in the
\* same order, with the same cells in the columns that are left.
SameRowsWithout(d, t) ==
  /\ Range(d.header) = NonNullColumns(t)
  /\ Len(d.rows) = Len(t.rows)
  /\ \A i \in 1..Len(t.rows) :
       \A c \in NonNullColumns(t) : CellAt(d, i, c) = CellAt(t, i, c)

\* C14: in make_main_table_v3 and make_main_table_sqlite, with
\* drop_empty_columns the table that is written has no column that is null in
\* all of its rows, and the drop pass keeps every column that holds a value
\* and every row with its cells; without the flag every column of the joined
\* tables is written, all-null or not; either way the main table has its one
\* row per key and date.
C14_DropEmptyColumns ==
  /\ \A s \in {"v3", "sqlite"} :
       Finished(s) =>
         /\ drop_empty_columns => NonNullColumns(output[s]) = Range(output[s].header)
         /\ ~drop_empty_columns =>
              \A n \in TopicTables : ColumnsAsRead(s, n) \subseteq Range(output[s].header)
         /\ Len(output[s].rows) = Cardinality(IndexKeys) * NumDates
  /\ (pc \in {"v_sort", "s_copy"}) =>
       SameRowsWithout(files[temp_input], files[temp_output])

\* Both builders have dropped the dated column, which is null on every row,
\* and kept the static one, with all the rows of two keys.
C14_Witness ==
  /\ drop_empty_columns
  /\ \A s \in {"v3", "sqlite"} :
       /\ Finished(s)
       /\ "new_confirmed" \notin Range(output[s].header)
       /\ "population" \in Range(output[s].header)
       /\ Len(output[s].rows) = 2 * NumDates
  /\ "epidemiology" \in DOMAIN tables
  /\ Len(tables["epidemiology"].rows) > 0

\* The same relative path with only the extension of the file swapped.
SwapExtension(csv_file) == [csv_file EXCEPT ![Len(csv_file)] = ".json"]

\* C15: a successful mirror conversion writes its output at the relative path
\* of its CSV file with only the extension swapped, and distinct CSV files
\* have distinct output paths.
C15_MirrorPaths ==
  fan_stage = "mirror" =>
    /\ \A i \in 1..Len(items) :
         task[i] = "ok" =>
           /\ OutPath(fan_stage, items[i]) = SwapExtension(items[i])
           /\ SwapExtension(items[i]) \in DOMAIN tree
    /\ \A i, j \in 1..Len(items) :
         i # j => OutPath(fan_stage, items[i]) # OutPath(fan_stage, items[j])

\* The rows of a key in a file.
RowsOfKey(rows, k) == {i \in 1..Len(rows) : rows[i][1] = k}

\* C16: the file subset_latest writes holds, for every key of its input,
\* exactly one row, and that row is the input row of the key with the
\* greatest date; for every file of the folder, a copied topic table or the
\* main table.
C16_LatestSnapshot ==
  t_pc = "done" =>
    \A k \in {csv_rows[i][1] : i \in 1..Len(csv_rows)} :
      /\ Cardinality(RowsOfKey(t_output, k)) = 1
      /\ \A i \in RowsOfKey(t_output, k) :
           /\ t_output[i] \in Range(csv_rows)
           /\ \A j \in RowsOfKey(csv_rows, k) : StrLeq(csv_rows[j][2], t_output[i][2])

\* C17: in main_v2 and main_v3 the wipe of the output folder comes first:
\* before it nothing was read, renamed, published or called, and from then on,
\* in a run that fails as in one that completes, nothing of the earlier
\* output (but the hidden entries) is left in the folder.
C17_WipeFirst ==
  run \in {"main_v3", "main_v2"} =>
    /\ r_pc = "wipe" =>
         /\ renamed = {}
         /\ published = {}
         /\ broken_out = {}
         /\ location_keys = <<>>
         /\ generators = {}
         /\ fan_stage = "none"
    /\ r_pc # "wipe" =>
         \A q \in (DOMAIN StaleTree) \cap (DOMAIN tree) : q = <<".gitignore">>

\* A run over a folder with earlier output has published a table and then
\* failed: the earlier output is gone, the hidden entry is still there.
C17_Witness ==
  /\ run \in {"main_v3", "main_v2"}
  /\ r_pc = "error"
  /\ published # {}
  /\ <<".gitignore">> \in DOMAIN tree
  /\ <<"old", ".csv">> \notin DOMAIN tree

\* make_main_table_v3 is between its first and its last step.
V3Running == strategy = "v3" /\ pc \in {"h_assert", "h_keys", "h_dates", "h_cross",
                                         "v_swap", "v_loop", "v_sort"}

\* The two working paths are the two buffers, one each; where the next step
\* reads temp_input, that file is there and is the one written last: in the
\* loop it has the columns of every table joined so far and the other buffer
\* lacks those of the last one, and after the drop pass it is the other
\* buffer without its empty columns.
V3Buffers ==
  V3Running =>
    /\ {temp_input, temp_output} = {"tmp.1.csv", "tmp.2.csv"}
    /\ temp_input # temp_output
    /\ pc \in {"v_loop", "v_sort"} => temp_input \in DOMAIN files
    /\ pc = "v_loop" =>
         /\ \A n \in Range(joined["v3"]) :
              Range(tables[n].header) \subseteq Range(files[temp_input].header)
         /\ joined["v3"] # <<>> =>
              /\ temp_output \in DOMAIN files
              /\ ~(Range(tables[joined["v3"][Len(joined["v3"])]].header)
                     \subseteq Range(files[temp_output].header))
    /\ pc = "v_sort" =>
         /\ temp_output \in DOMAIN files
         /\ files[temp_input] = table_drop_nan_columns(files[temp_output])

\* A step of make_main_table_v3 that writes a working file (a join, or the
\* drop pass) reads temp_input and writes temp_output, leaves every other
\* file as it is, and flips the two paths; the final sort reads temp_input.
V3Step ==
  (strategy = "v3" /\ pc = "v_loop") =>
    /\ ((pc' = "v_loop" /\ joined' # joined) \/ pc' = "v_sort") =>
         /\ temp_input' = temp_output
         /\ temp_output' = temp_input
         /\ DOMAIN files' = (DOMAIN files) \cup {temp_output}
         /\ \A n \in (DOMAIN files) \ {temp_output} : files'[n] = files[n]
         /\ pc' = "v_sort" => files'[temp_output] = table_drop_nan_columns(files[temp_input])
         /\ pc' = "v_loop" =>
              files'[temp_output] =
                table_join(files[temp_input], tables[Head(todo)],
                           JoinOn(tables[Head(todo)].header, "location_key"))
    /\ (pc' = "v_loop" /\ joined' = joined) =>
         (temp_input' = temp_input /\ temp_output' = temp_output /\ files' = files)
    /\ pc' = "done" => output'["v3"] = table_sort(files[temp_input])

\* C18: in make_main_table_v3 temp_input and temp_output are always the two
\* distinct buffers tmp.1.csv and tmp.2.csv; every join and the drop pass read
\* the file the step before wrote and write the other one, and the final sort
\* reads the file written last, whatever the tables and the flag.
C18_DoubleBuffer == [](V3Buffers) /\ [][V3Step]_vars

\* The drop pass has run after three joins (index, a static and a dated
\* table, with a main.csv skipped), and the final sort is next.
C18_Witness ==
  /\ strategy = "v3"
  /\ pc = "v_sort"
  /\ Len(joined["v3"]) = 3
  /\ "main" \in DOMAIN tables
  /\ temp_input = "tmp.2.csv"

\* No element of a sequence occurs in it twice.
NoDuplicates(q) == \A i, j \in 1..Len(q) : i # j => q[i] # q[j]

\* Every (key, date) row of the cross product is a row of the relation.
HoldsCrossProduct(t) ==
  \A i \in 1..Len(conn["cross-product"].rows) :
    \E j \in 1..Len(t.rows) :
      /\ CellAt(t, j, "location_key") = CellAt(conn["cross-product"], i, "location_key")
      /\ CellAt(t, j, "date") = CellAt(conn["cross-product"], i, "date")

\* C19: in make_main_table_sqlite every imported table is in exactly one of
\* idx1 (no date column) and idx2 (a date column), idx2 starting with the
\* cross product; each group is merged into its own relation, which has the
\* columns of all its tables; and the final merge has _idx2 as its base and
\* _idx1 on the right, so that _main holds every (key, date) row of the cross
\* product whatever keys the static tables have.
C19_RelationalGroups ==
  (strategy = "sqlite" /\ pc \in {"s_loop", "s_merge2", "s_merge3", "s_export"}) =>
    /\ Range(idx1) \cap Range(idx2) = {}
    /\ Range(idx1) \cup Range(idx2) = {"cross-product"} \cup Range(joined["sqlite"])
    /\ NoDuplicates(idx1 \o idx2)
    /\ idx2[1] = "cross-product"
    /\ \A n \in Range(idx1) : "date" \notin Range(conn[n].header)
    /\ \A n \in Range(idx2) : "date" \in Range(conn[n].header)
    /\ pc # "s_loop" =>
         /\ Range(joined["sqlite"]) = DOMAIN tables
         /\ \A n \in Range(idx1) : Range(conn[n].header) \subseteq Range(conn["_idx1"].header)
    /\ pc \in {"s_merge3", "s_export"} =>
         /\ \A n \in Range(idx2) : Range(conn[n].header) \subseteq Range(conn["_idx2"].header)
         /\ HoldsCrossProduct(conn["_idx2"])
    /\ pc = "s_export" =>
         /\ SubSeq(conn["_main"].header, 1, Len(conn["_idx2"].header)) = conn["_idx2"].header
         /\ Range(conn["_idx1"].header) \subseteq Range(conn["_main"].header)
         /\ HoldsCrossProduct(conn["_main"])

\* The final merge is done: the static group is a table that lacks a key of
\* the index, then the index; the dated group is the cross product and a
\* dated table; _main has the rows of both keys.
C19_Witness ==
  /\ strategy = "sqlite"
  /\ pc = "s_export"
  /\ idx1 = <<"demographics", "index">>
  /\ idx2 = <<"cross-product", "epidemiology">>
  /\ Len(tables["demographics"].rows) = 1
  /\ Cardinality(IndexKeys) = 2
  /\ Len(conn["_main"].rows) = 2 * NumDates

\* The tables of the first n entries of the glob that are not on the
\* exclusion list, in that order.
JoinedAfter(n) ==
  SelectSeq(SubSeq(glob_order, 1, n), LAMBDA t : t \notin EXCLUDE_FROM_MAIN_TABLE)

\* C20: make_main_table seeds its working table with the join of the key x
\* date cross product and the index, then joins each table of the folder that
\* is not on the exclusion list once, in the order of the glob: the index is
\* not joined again and no excluded table is joined; a dated table is joined
\* on (key, date) and a static one on the key, so that every cell of the
\* result is its source's cell for the row's key (and date).
C20_DirectJoins ==
  /\ (strategy = "direct" /\ pc = "d_loop") =>
       /\ joined["direct"] = <<"index">> \o JoinedAfter(Len(glob_order) - Len(todo))
       /\ Len(files["main.csv"].rows) = Len(tables["index"].rows) * NumDates
       /\ SubSeq(files["main.csv"].header, 1, 2) = <<"key", "date">>
       /\ \A n \in Range(joined["direct"]) :
            ColumnsAsRead("direct", n) \subseteq Range(files["main.csv"].header)
  /\ (strategy = "direct" /\ pc = "done") =>
       /\ joined["direct"] = <<"index">> \o JoinedAfter(Len(glob_order))
       /\ NoDuplicates(joined["direct"])
       /\ Range(Tail(joined["direct"])) \cap EXCLUDE_FROM_MAIN_TABLE = {}
       /\ CellsFromSource("direct")
       /\ Len(output["direct"].header) =
            2 + Len(tables["index"].header) - 1
              + (IF "demographics" \in DOMAIN tables THEN 1 ELSE 0)
              + (IF "epidemiology" \in DOMAIN tables THEN 1 ELSE 0)

\* The direct builder has finished over a folder with an index of two keys, a
\* static table, a dated table with a value and an earlier main.csv: it
\* joined the index, then the two tables.
C20_Witness ==
  /\ Finished("direct")
  /\ "main" \in DOMAIN tables
  /\ Cardinality(Range(joined["direct"])) = 3
  /\ Cardinality(IndexKeys) = 2
  /\ \E i \in 1..Len(output["direct"].rows) :
       CellAt(output["direct"], i, "new_confirmed") # Null

(***************************************************************************)
(* Further properties of the partitioner.                                  *)
(***************************************************************************)
\* The data lines of the input that some output file holds.
KeptLines == {i \in 2..Len(main_table) :
                \E k \in DOMAIN out_files :
                  \E j \in 1..Len(out_files[k]) : out_files[k][j] = main_table[i]}

\* C21: over a main table in which a key comes back after another key, the
\* finished pass has lost no data line: every data line of the input is in some
\* output file.
C21_NoRowLost ==
  (p_pc = "done" /\ ~Contiguous(main_table)) => KeptLines = 2..Len(main_table)

\* C25: over a main table whose keys are contiguous, the fully consumed
\* partitioner has yielded the path of every file it wrote, each once, the last
\* key's included, and the file of a yielded path is closed.
C25_YieldsEveryFile ==
  (p_pc = "done" /\ Contiguous(main_table)) =>
    /\ Range(yielded) = DOMAIN out_files
    /\ Len(yielded) = Cardinality(DOMAIN out_files)
    /\ Range(yielded) \cap open_handles = {}

\* C26: at any moment of the pass at most one output handle is open, and it is
\* the current one; every data line of an output file has the key the file was
\* opened for; and when the pass has ended normally no handle is open.
C26_OneHandle ==
  /\ Cardinality(open_handles) <= 1
  /\ open_handles \subseteq {file_handle}
  /\ \A k \in DOMAIN out_files :
       \A j \in 2..Len(out_files[k]) : out_files[k][j].key = k
  /\ p_pc = "done" => open_handles = {}

\* C26's case: a pass over three lines of three keys has ended, having opened
\* and closed three handles.
C26_Witness ==
  /\ p_pc = "done"
  /\ Len(main_table) = 4
  /\ Cardinality(DOMAIN out_files) = 3
  /\ Len(yielded) = 2

\* C27: over a main table of a header and no data line the pass ends without
\* an error, having created no file and yielded no path.
C27_EmptyTable ==
  (Len(main_table) = 1 /\ p_pc \in {"done", "error"}) =>
    /\ p_pc = "done"
    /\ DOMAIN out_files = {}
    /\ yielded = <<>>

(***************************************************************************)
(* Further properties of the builders.                                     *)
(***************************************************************************)
\* C22: a builder's output is put at output_path only once it is complete, so
\* every file at an output path is the table of a builder that has succeeded: a
\* builder that failed has left nothing there.
C22_NoPartialOutput ==
  \A s \in DOMAIN output : result[s] = "ok"

(***************************************************************************)
(* Further properties of the publish runs.                                 *)
(***************************************************************************)
\* C23: in every fan-out stage, two tasks that are in flight together write
\* different paths, and neither writes the file the other reads.
C23_DisjointTasks ==
  \A i, j \in InFlight :
    i # j => /\ OutPath(fan_stage, items[i]) # OutPath(fan_stage, items[j])
             /\ OutPath(fan_stage, items[i]) # items[j]

\* When main_v3 has returned, every key read from the published index has its
\* folder, with the breakout of every published table that has rows of the key
\* and with the main.csv its aggregation task wrote, all of them complete.
LocationFolder(k) ==
  /\ \A t \in published :
       k \in Range(TableKeys(t)) =>
         /\ KeyPath(k, t) \in DOMAIN tree
         /\ tree[KeyPath(k, t)] = "complete"
  /\ KeyPath(k, "main") \in DOMAIN tree
  /\ tree[KeyPath(k, "main")] = "complete"

ScopedFolder ==
  /\ "index" \in DOMAIN tables
  /\ Cardinality(IndexKeys) = 1
  /\ \A n \in (DOMAIN tables) \ {"main"} :
       \A i \in 1..Len(tables[n].rows) :
         tables[n].rows[i][ColIndex(tables[n].header, "location_key")] \in IndexKeys

\* The main table make_main_table_v3 builds over such a folder with
\* drop_empty_columns set has one row per date of the range, all of that key.
ScopedMainTable ==
  (Finished("v3") /\ drop_empty_columns /\ ScopedFolder) =>
    /\ KeyDateUniverse("v3")
    /\ Len(output["v3"].rows) = NumDates
    /\ \A i \in 1..Len(output["v3"].rows) :
         output["v3"].rows[i][ColIndex(output["v3"].header, "location_key")] \in IndexKeys

====
